---- MODULE Spec2Model ----
(***************************************************************************)
(* Model of src/src/oper.rs: the decoder Operation::new that turns a BSON  *)
(* oplog document into an Operation, with its helpers get_uid and          *)
(* timestamp_to_datetime.                                                  *)
(*                                                                         *)
(* A BSON value is a record with one field, named after its type:         *)
(* [String |-> "foo"], [Document |-> d], [Array |-> <<...>>].  A BSON      *)
(* document is a function from its keys to BSON values.  An unsigned       *)
(* 32-bit integer is a pair <<hi, lo>> of 16-bit halves, so that the whole *)
(* u32 range can be written down.  A Result is                             *)
(*   [kind |-> "Ok", val |-> ...], [kind |-> "Err", err |-> ...] or        *)
(*   [kind |-> "Panic", msg |-> ...] (the thread unwinds, nothing is       *)
(*   returned).                                                            *)
(***************************************************************************)
EXTENDS Integers, Sequences, FiniteSets, TLC

VARIABLES document, result, pc, chronoStrict, tsA, tsB, dtA, dtB

vars == <<document, result, pc, chronoStrict, tsA, tsB, dtA, dtB>>

(***************************************************************************)
(* Bounds of the model.                                                    *)
(***************************************************************************)
MaxBatch == 2
MaxDepth == 1
MaxUidLen == 3

(***************************************************************************)
(* Results and errors.                                                     *)
(***************************************************************************)
Ok(v) == [kind |-> "Ok", val |-> v]

Err(e) == [kind |-> "Err", err |-> e]

Panic(m) == [kind |-> "Panic", msg |-> m]

None == [kind |-> "None"]

MissingField(e) == [e |-> "MissingField", why |-> e]

UnknownOperation(op) == [e |-> "UnknownOperation", op |-> op]

InvalidOperation == [e |-> "InvalidOperation"]

(***************************************************************************)
(* Unsigned 32-bit integers as <<hi, lo>>, value hi * 65536 + lo.          *)
(***************************************************************************)
U32Lt(a, b) == a[1] < b[1] \/ (a[1] = b[1] /\ a[2] < b[2])

U32Le(a, b) == a = b \/ U32Lt(a, b)

\* 65536 % 60 = 16
U32Mod60(a) == (a[1] * 16 + a[2]) % 60

\* 1_000_000_000 and 2_000_000_000
Billion == <<15258, 51712>>

TwoBillion == <<30517, 37888>>

(***************************************************************************)
(* BSON values.                                                            *)
(***************************************************************************)
Str(s) == [String |-> s]

Int32(n) == [Int32 |-> n]

Doc(d) == [Document |-> d]

Arr(a) == [Array |-> a]

Bin(subtype, bytes) == [Binary |-> [subtype |-> subtype, bytes |-> bytes]]

Timestamp(time, increment) == [Timestamp |-> [time |-> time, increment |-> increment]]

Is(bson, type) == type \in DOMAIN bson

(***************************************************************************)
(* Typed accessors of bson::Document: NotPresent when the key is absent,   *)
(* UnexpectedType when the value has another type.                         *)
(***************************************************************************)
get_typed(doc, key, type) ==
    IF key \notin DOMAIN doc THEN Err("NotPresent")
    ELSE IF ~Is(doc[key], type) THEN Err("UnexpectedType")
    ELSE Ok(doc[key][type])

get_str(doc, key) == get_typed(doc, key, "String")

get_timestamp(doc, key) == get_typed(doc, key, "Timestamp")

get_document(doc, key) == get_typed(doc, key, "Document")

get_array(doc, key) == get_typed(doc, key, "Array")

get_binary_generic(doc, key) ==
    IF key \notin DOMAIN doc THEN Err("NotPresent")
    ELSE IF ~Is(doc[key], "Binary") THEN Err("UnexpectedType")
    ELSE IF doc[key].Binary.subtype # "Generic" THEN Err("UnexpectedType")
    ELSE Ok(doc[key].Binary.bytes)

(***************************************************************************)
(* base64::encode: standard alphabet, with padding.                        *)
(***************************************************************************)
Alphabet ==
    << "A", "B", "C", "D", "E", "F", "G", "H", "I", "J", "K", "L", "M",
       "N", "O", "P", "Q", "R", "S", "T", "U", "V", "W", "X", "Y", "Z",
       "a", "b", "c", "d", "e", "f", "g", "h", "i", "j", "k", "l", "m",
       "n", "o", "p", "q", "r", "s", "t", "u", "v", "w", "x", "y", "z",
       "0", "1", "2", "3", "4", "5", "6", "7", "8", "9", "+", "/" >>

Sextet(n) == Alphabet[n + 1]

\* encode without the trailing padding
RECURSIVE encode_no_pad(_)
encode_no_pad(bytes) ==
    IF Len(bytes) = 0 THEN ""
    ELSE IF Len(bytes) = 1 THEN
        Sextet(bytes[1] \div 4) \o Sextet((bytes[1] % 4) * 16)
    ELSE IF Len(bytes) = 2 THEN
        Sextet(bytes[1] \div 4)
            \o Sextet((bytes[1] % 4) * 16 + bytes[2] \div 16)
            \o Sextet((bytes[2] % 16) * 4)
    ELSE
        Sextet(bytes[1] \div 4)
            \o Sextet((bytes[1] % 4) * 16 + bytes[2] \div 16)
            \o Sextet((bytes[2] % 16) * 4 + bytes[3] \div 64)
            \o Sextet(bytes[3] % 64)
            \o encode_no_pad(SubSeq(bytes, 4, Len(bytes)))

RECURSIVE encode(_)
encode(bytes) ==
    IF Len(bytes) = 0 THEN ""
    ELSE IF Len(bytes) = 1 THEN
        Sextet(bytes[1] \div 4) \o Sextet((bytes[1] % 4) * 16) \o "=="
    ELSE IF Len(bytes) = 2 THEN
        Sextet(bytes[1] \div 4)
            \o Sextet((bytes[1] % 4) * 16 + bytes[2] \div 16)
            \o Sextet((bytes[2] % 16) * 4) \o "="
    ELSE
        Sextet(bytes[1] \div 4)
            \o Sextet((bytes[1] % 4) * 16 + bytes[2] \div 16)
            \o Sextet((bytes[2] % 16) * 4 + bytes[3] \div 64)
            \o Sextet(bytes[3] % 64)
            \o encode(SubSeq(bytes, 4, Len(bytes)))

(***************************************************************************)
(* get_uid: the base64 rendering of lsid.uid.                              *)
(***************************************************************************)
get_uid(doc) ==
    LET lsid == get_document(doc, "lsid")
        bytes == get_binary_generic(lsid.val, "uid")
    IN  IF lsid.kind = "Err" THEN Err(MissingField(lsid.err))
        ELSE IF bytes.kind = "Err" THEN Err(MissingField(bytes.err))
        ELSE Ok(encode(bytes.val))

(***************************************************************************)
(* chrono's Utc.timestamp(secs, nsecs): timestamp_opt(..).unwrap().  Every *)
(* chrono 0.4 rejects nsecs >= 2_000_000_000; from 0.4.31 on a leap-second *)
(* value nsecs >= 1_000_000_000 is accepted only when secs % 60 = 59.      *)
(* chronoStrict says which chrono the build links.                         *)
(***************************************************************************)
NanosValid(secs, nsecs) ==
    /\ U32Lt(nsecs, TwoBillion)
    /\ chronoStrict => (U32Lt(nsecs, Billion) \/ U32Mod60(secs) = 59)

timestamp_to_datetime(timestamp) ==
    LET seconds == timestamp.time
        nanoseconds == timestamp.increment
    IN  IF NanosValid(seconds, nanoseconds)
        THEN Ok([secs |-> seconds, frac |-> nanoseconds])
        ELSE Panic("No such local time")

\* Ord of DateTime<Utc>: by second, then by the sub-second fraction
DateTimeLe(a, b) ==
    U32Lt(a.secs, b.secs) \/ (a.secs = b.secs /\ U32Le(a.frac, b.frac))

(***************************************************************************)
(* The per-tag extractors.  The ? operator returns the accessor's error as *)
(* MissingField; get_uid(..).unwrap() panics on an error; the fields of    *)
(* the struct literal are evaluated in order, uid before timestamp.        *)
(***************************************************************************)
Built(uid, dt, op) ==
    IF uid.kind = "Err" THEN Panic("called Result::unwrap() on an Err value")
    ELSE IF dt.kind = "Panic" THEN dt
    ELSE Ok(op)

noop_message(doc) ==
    IF "o" \notin DOMAIN doc THEN None
    ELSE IF ~Is(doc["o"], "Document") THEN None
    ELSE IF "msg" \notin DOMAIN doc["o"].Document THEN None
    ELSE IF ~Is(doc["o"].Document["msg"], "String") THEN None
    ELSE [kind |-> "Some", val |-> doc["o"].Document["msg"].String]

from_noop(doc) ==
    LET ts == get_timestamp(doc, "ts")
        uid == get_uid(doc)
        dt == timestamp_to_datetime(ts.val)
    IN  IF ts.kind = "Err" THEN Err(MissingField(ts.err))
        ELSE Built(uid, dt,
                [variant |-> "Noop", uid |-> uid.val, timestamp |-> dt.val,
                 message |-> noop_message(doc)])

from_insert(doc) ==
    LET ts == get_timestamp(doc, "ts")
        ns == get_str(doc, "ns")
        o == get_document(doc, "o")
        uid == get_uid(doc)
        dt == timestamp_to_datetime(ts.val)
    IN  IF ts.kind = "Err" THEN Err(MissingField(ts.err))
        ELSE IF ns.kind = "Err" THEN Err(MissingField(ns.err))
        ELSE IF o.kind = "Err" THEN Err(MissingField(o.err))
        ELSE Built(uid, dt,
                [variant |-> "Insert", uid |-> uid.val, timestamp |-> dt.val,
                 namespace |-> ns.val, document |-> o.val])

\* from_update with the two payloads in each other's role
from_update_swapped(doc) ==
    LET ts == get_timestamp(doc, "ts")
        ns == get_str(doc, "ns")
        o == get_document(doc, "o")
        o2 == get_document(doc, "o2")
        uid == get_uid(doc)
        dt == timestamp_to_datetime(ts.val)
    IN  IF ts.kind = "Err" THEN Err(MissingField(ts.err))
        ELSE IF ns.kind = "Err" THEN Err(MissingField(ns.err))
        ELSE IF o.kind = "Err" THEN Err(MissingField(o.err))
        ELSE IF o2.kind = "Err" THEN Err(MissingField(o2.err))
        ELSE Built(uid, dt,
                [variant |-> "Update", uid |-> uid.val, timestamp |-> dt.val,
                 namespace |-> ns.val, query |-> o.val, update |-> o2.val])

\* from_update reading o2 before ns
from_update_o2_before_ns(doc) ==
    LET ts == get_timestamp(doc, "ts")
        ns == get_str(doc, "ns")
        o == get_document(doc, "o")
        o2 == get_document(doc, "o2")
        uid == get_uid(doc)
        dt == timestamp_to_datetime(ts.val)
    IN  IF ts.kind = "Err" THEN Err(MissingField(ts.err))
        ELSE IF o2.kind = "Err" THEN Err(MissingField(o2.err))
        ELSE IF ns.kind = "Err" THEN Err(MissingField(ns.err))
        ELSE IF o.kind = "Err" THEN Err(MissingField(o.err))
        ELSE Built(uid, dt,
                [variant |-> "Update", uid |-> uid.val, timestamp |-> dt.val,
                 namespace |-> ns.val, query |-> o2.val, update |-> o.val])

from_update(doc) ==
    LET ts == get_timestamp(doc, "ts")
        ns == get_str(doc, "ns")
        o == get_document(doc, "o")
        o2 == get_document(doc, "o2")
        uid == get_uid(doc)
        dt == timestamp_to_datetime(ts.val)
    IN  IF ts.kind = "Err" THEN Err(MissingField(ts.err))
        ELSE IF ns.kind = "Err" THEN Err(MissingField(ns.err))
        ELSE IF o.kind = "Err" THEN Err(MissingField(o.err))
        ELSE IF o2.kind = "Err" THEN Err(MissingField(o2.err))
        ELSE Built(uid, dt,
                [variant |-> "Update", uid |-> uid.val, timestamp |-> dt.val,
                 namespace |-> ns.val, query |-> o2.val, update |-> o.val])

from_delete(doc) ==
    LET ts == get_timestamp(doc, "ts")
        ns == get_str(doc, "ns")
        o == get_document(doc, "o")
        uid == get_uid(doc)
        dt == timestamp_to_datetime(ts.val)
    IN  IF ts.kind = "Err" THEN Err(MissingField(ts.err))
        ELSE IF ns.kind = "Err" THEN Err(MissingField(ns.err))
        ELSE IF o.kind = "Err" THEN Err(MissingField(o.err))
        ELSE Built(uid, dt,
                [variant |-> "Delete", uid |-> uid.val, timestamp |-> dt.val,
                 namespace |-> ns.val, query |-> o.val])

RECURSIVE new(_), from_bson(_), collect(_), from_command(_)

from_bson(bson) ==
    IF Is(bson, "Document") THEN new(bson.Document) ELSE Err(InvalidOperation)

\* collect that prepends where it should append
collect_reversed(ops) ==
    IF Len(ops) = 0 THEN Ok(<< >>)
    ELSE LET first == from_bson(Head(ops))
             rest == collect(Tail(ops))
         IN  IF first.kind # "Ok" THEN first
             ELSE IF rest.kind # "Ok" THEN rest
             ELSE Ok(rest.val \o <<first.val>>)

\* ops.iter().map(from_bson).collect::<Result<Vec<_>>>(): in order, stops
\* at the first element that yields no operation
collect(ops) ==
    IF Len(ops) = 0 THEN Ok(<< >>)
    ELSE LET first == from_bson(Head(ops))
             rest == collect(Tail(ops))
         IN  IF first.kind # "Ok" THEN first
             ELSE IF rest.kind # "Ok" THEN rest
             ELSE Ok(<<first.val>> \o rest.val)

\* from_command that takes an empty batch for a plain command
from_command_empty_is_command(doc) ==
    LET ts == get_timestamp(doc, "ts")
        ns == get_str(doc, "ns")
        o == get_document(doc, "o")
        ops == get_array(o.val, "applyOps")
        operations == collect(ops.val)
        uid == get_uid(doc)
        dt == timestamp_to_datetime(ts.val)
    IN  IF ts.kind = "Err" THEN Err(MissingField(ts.err))
        ELSE IF ns.kind = "Err" THEN Err(MissingField(ns.err))
        ELSE IF o.kind = "Err" THEN Err(MissingField(o.err))
        ELSE IF ops.kind = "Ok" /\ Len(ops.val) > 0 THEN
            IF operations.kind # "Ok" THEN operations
            ELSE Built(uid, dt,
                    [variant |-> "ApplyOps", uid |-> uid.val, timestamp |-> dt.val,
                     namespace |-> ns.val, operations |-> operations.val])
        ELSE Built(uid, dt,
                [variant |-> "Command", uid |-> uid.val, timestamp |-> dt.val,
                 namespace |-> ns.val, command |-> o.val])

from_command(doc) ==
    LET ts == get_timestamp(doc, "ts")
        ns == get_str(doc, "ns")
        o == get_document(doc, "o")
        ops == get_array(o.val, "applyOps")
        operations == collect(ops.val)
        uid == get_uid(doc)
        dt == timestamp_to_datetime(ts.val)
    IN  IF ts.kind = "Err" THEN Err(MissingField(ts.err))
        ELSE IF ns.kind = "Err" THEN Err(MissingField(ns.err))
        ELSE IF o.kind = "Err" THEN Err(MissingField(o.err))
        ELSE IF ops.kind = "Ok" THEN
            IF operations.kind # "Ok" THEN operations
            ELSE Built(uid, dt,
                    [variant |-> "ApplyOps", uid |-> uid.val, timestamp |-> dt.val,
                     namespace |-> ns.val, operations |-> operations.val])
        ELSE Built(uid, dt,
                [variant |-> "Command", uid |-> uid.val, timestamp |-> dt.val,
                 namespace |-> ns.val, command |-> o.val])

\* new with a catch-all arm that falls through to the no-op extractor
new_unknown_as_noop(doc) ==
    LET op == get_str(doc, "op")
    IN  IF op.kind = "Err" THEN Err(MissingField(op.err))
        ELSE IF op.val = "i" THEN from_insert(doc)
        ELSE IF op.val = "u" THEN from_update(doc)
        ELSE IF op.val = "d" THEN from_delete(doc)
        ELSE IF op.val = "c" THEN from_command(doc)
        ELSE from_noop(doc)

new(doc) ==
    LET op == get_str(doc, "op")
    IN  IF op.kind = "Err" THEN Err(MissingField(op.err))
        ELSE IF op.val = "n" THEN from_noop(doc)
        ELSE IF op.val = "i" THEN from_insert(doc)
        ELSE IF op.val = "u" THEN from_update(doc)
        ELSE IF op.val = "d" THEN from_delete(doc)
        ELSE IF op.val = "c" THEN from_command(doc)
        ELSE Err(UnknownOperation(op.val))

(***************************************************************************)
(* Input documents.                                                        *)
(***************************************************************************)
Absent == [Absent |-> TRUE]

\* the document holding the fields of f that are not Absent
MkDoc(f) == [k \in {key \in DOMAIN f : ~Is(f[key], "Absent")} |-> f[k]]

EmptyDoc == [k \in {} |-> Absent]

Zero == <<0, 0>>

One == <<0, 1>>

BillionLessOne == <<15258, 51711>>

TwoBillionLessOne == <<30517, 37887>>

U32Max == <<65535, 65535>>

\* 1479419535, 1479419579 (the 59th second of its minute), 1483789052
T1 == <<22574, 9871>>

T59 == <<22574, 9915>>

T2 == <<22640, 54012>>

ByteVals == {0, 255}

RECURSIVE SeqsUpTo(_, _)
SeqsUpTo(S, n) ==
    IF n = 0 THEN {<< >>}
    ELSE LET shorter == SeqsUpTo(S, n - 1)
         IN  shorter \cup {Append(q, x) : q \in {r \in shorter : Len(r) = n - 1}, x \in S}

UidBytes == SeqsUpTo(ByteVals, MaxUidLen)

Lsid(bytes) == Doc("uid" :> Bin("Generic", bytes))

OpVals ==
    { Absent, Int32(1), Str("n"), Str("i"), Str("u"), Str("d"), Str("c"),
      Str("x"), Str("I") }

TsVals ==
    {Absent, Int32(1), Timestamp(T1, Zero), Timestamp(T1, Billion), Timestamp(T2, U32Max)}

NsVals == {Absent, Int32(1), Str("foo.bar")}

FooBar == "foo" :> Str("bar")

IdOne == "_id" :> Int32(1)

OVals ==
    { Absent, Str("initiating set"), Doc(FooBar),
      Doc("msg" :> Str("initiating set")), Doc("msg" :> Int32(1)),
      Doc("applyOps" :> Str("foo")),
      Doc(("create" :> Str("foo")) @@ ("applyOps" :> Arr(<< >>))),
      Doc("$set" :> Doc("foo" :> Str("baz"))) }

O2Vals == {Absent, Int32(1), Doc(IdOne)}

LsidVals ==
    { Absent, Str("uid"), Doc(EmptyDoc), Doc("uid" :> Str("uid")),
      Doc("uid" :> Bin("Uuid", <<0>>)) }
    \cup {Lsid(b) : b \in UidBytes}

FlatDocs ==
    { MkDoc([op |-> op, ts |-> ts, ns |-> ns, o |-> o, o2 |-> o2, lsid |-> lsid]) :
        op \in OpVals, ts \in TsVals, ns \in NsVals, o \in OVals,
        o2 \in O2Vals, lsid \in LsidVals }

\* elements of a batch: three operations that differ in every field (one of
\* them with a uid of zero bytes), a value that is no document, two
\* documents that yield an error, and one without lsid
ElemInsert ==
    Doc([op |-> Str("i"), ts |-> Timestamp(T1, Zero), ns |-> Str("foo.bar"),
         o |-> Doc(IdOne @@ FooBar), lsid |-> Lsid(<<0>>)])

ElemDelete ==
    Doc([op |-> Str("d"), ts |-> Timestamp(T1, One), ns |-> Str("baz.qux"),
         o |-> Doc(IdOne), lsid |-> Lsid(<<255>>)])

ElemNoop ==
    Doc([op |-> Str("n"), ts |-> Timestamp(T2, One),
         o |-> Doc("msg" :> Str("periodic noop")), lsid |-> Lsid(<< >>)])

ElemNotDoc == Int32(1)

ElemUnknown == Doc([op |-> Str("x")])

ElemMissing ==
    Doc([op |-> Str("i"), ts |-> Timestamp(T1, Zero), o |-> Doc(FooBar),
         lsid |-> Lsid(<<0>>)])

ElemNoLsid ==
    Doc([op |-> Str("i"), ts |-> Timestamp(T1, Zero), ns |-> Str("foo.bar"),
         o |-> Doc(FooBar)])

BaseElems ==
    { ElemInsert, ElemDelete, ElemNoop, ElemNotDoc, ElemUnknown, ElemMissing,
      ElemNoLsid }

\* a command record whose batch holds e alone
Wrap(e) ==
    Doc([op |-> Str("c"), ts |-> Timestamp(T59, Zero), ns |-> Str("bar.$cmd"),
         o |-> Doc("applyOps" :> Arr(<<e>>)), lsid |-> Lsid(<<0, 255>>)])

RECURSIVE ElemsOfDepth(_)
ElemsOfDepth(d) ==
    IF d = 0 THEN BaseElems
    ELSE LET inner == ElemsOfDepth(d - 1)
         IN  inner \cup {Wrap(e) : e \in inner}

BatchDocs ==
    { MkDoc([op |-> Str("c"), ts |-> Timestamp(T2, Zero), ns |-> Str("foo.$cmd"),
             o |-> Doc("applyOps" :> Arr(a)), lsid |-> lsid]) :
        a \in SeqsUpTo(ElemsOfDepth(MaxDepth), MaxBatch),
        lsid \in {Absent, Lsid(<<255, 255, 255>>)} }

Docs == FlatDocs \cup BatchDocs

TsInputs ==
    [ time : {Zero, T1, T59, U32Max},
      increment : {Zero, One, BillionLessOne, Billion, TwoBillionLessOne,
                   TwoBillion, U32Max} ]

(***************************************************************************)
(* Spec: a caller hands one document to Operation::new.                    *)
(***************************************************************************)
Init ==
    /\ document \in Docs
    /\ chronoStrict \in BOOLEAN
    /\ result = None
    /\ pc = "new"
    /\ tsA = [time |-> Zero, increment |-> Zero]
    /\ tsB = [time |-> Zero, increment |-> Zero]
    /\ dtA = None
    /\ dtB = None

Decode ==
    /\ pc = "new"
    /\ result' = new(document)
    /\ pc' = "done"
    /\ UNCHANGED <<document, chronoStrict, tsA, tsB, dtA, dtB>>

Next == Decode

Spec == Init /\ [][Next]_vars

(***************************************************************************)
(* SpecTs: timestamp_to_datetime applied to two log positions.             *)
(***************************************************************************)
InitTs ==
    /\ document = EmptyDoc
    /\ chronoStrict \in BOOLEAN
    /\ result = None
    /\ pc = "timestamp"
    /\ tsA \in TsInputs
    /\ tsB \in TsInputs
    /\ dtA = None
    /\ dtB = None

Convert ==
    /\ pc = "timestamp"
    /\ dtA' = timestamp_to_datetime(tsA)
    /\ dtB' = timestamp_to_datetime(tsB)
    /\ pc' = "converted"
    /\ UNCHANGED <<document, result, chronoStrict, tsA, tsB>>

NextTs == Convert

SpecTs == InitTs /\ [][NextTs]_vars

Done == pc = "done"

\* C1: Operation::new never panics: it ends by returning an Operation or an
\* error value
C1_NeverPanics == Done => result.kind \in {"Ok", "Err"}

(***************************************************************************)
(* What the claims speak of, read off the input document.                  *)
(***************************************************************************)
KnownOps == {"n", "i", "u", "d", "c"}

Has(doc, key, type) == key \in DOMAIN doc /\ Is(doc[key], type)

Tag(doc) == doc["op"].String

\* C2: a document whose "op" is a string outside {n, i, u, d, c} yields
\* UnknownOperation carrying exactly that string, whatever else it holds
C2_UnknownOperation ==
    (Done /\ Has(document, "op", "String") /\ Tag(document) \notin KnownOps)
        => result = Err(UnknownOperation(Tag(document)))

C2_Witness ==
    /\ Done
    /\ Has(document, "op", "String") /\ Tag(document) = "I"
    /\ Has(document, "ts", "Timestamp") /\ Has(document, "o", "Document")
    /\ "lsid" \notin DOMAIN document
    /\ result = Err(UnknownOperation("I"))

\* the fields Operation::new needs, in the order the claim gives
RequiredFields(doc) ==
    IF ~Has(doc, "op", "String") \/ Tag(doc) \notin KnownOps THEN <<"op">>
    ELSE IF Tag(doc) = "n" THEN <<"op", "ts">>
    ELSE IF Tag(doc) = "u" THEN <<"op", "ts", "ns", "o", "o2">>
    ELSE <<"op", "ts", "ns", "o">>

FieldType(key) ==
    IF key = "ts" THEN "Timestamp"
    ELSE IF key \in {"op", "ns"} THEN "String"
    ELSE "Document"

FieldStatus(doc, key) ==
    IF key \notin DOMAIN doc THEN "NotPresent"
    ELSE IF Is(doc[key], FieldType(key)) THEN "Fine"
    ELSE "UnexpectedType"

BadFields(doc) ==
    {i \in 1..Len(RequiredFields(doc)) : FieldStatus(doc, RequiredFields(doc)[i]) # "Fine"}

FirstBadField(doc) ==
    RequiredFields(doc)[CHOOSE i \in BadFields(doc) : \A j \in BadFields(doc) : i <= j]

\* C3: a document that lacks, or has with the wrong type, a field its tag
\* requires yields MissingField, for the first such field in the order
\* op, ts, ns, o, o2
C3_MissingField ==
    (Done /\ BadFields(document) # {})
        => result = Err(MissingField(FieldStatus(document, FirstBadField(document))))

C3_Witness ==
    /\ Done
    /\ Has(document, "op", "String") /\ Tag(document) = "u"
    /\ Has(document, "ts", "Timestamp")
    /\ FieldStatus(document, "ns") = "UnexpectedType"
    /\ FieldStatus(document, "o") = "Fine"
    /\ FieldStatus(document, "o2") = "NotPresent"
    /\ result = Err(MissingField("UnexpectedType"))

Field(doc, key, type) == doc[key][type]

VariantOf(tag, o) ==
    IF tag = "n" THEN "Noop"
    ELSE IF tag = "i" THEN "Insert"
    ELSE IF tag = "u" THEN "Update"
    ELSE IF tag = "d" THEN "Delete"
    ELSE IF Has(o, "applyOps", "Array") THEN "ApplyOps"
    ELSE "Command"

\* the variant, namespace, payloads and log position of op are those of doc
OwnFields(op, doc) ==
    /\ Has(doc, "op", "String") /\ Tag(doc) \in KnownOps
    /\ Has(doc, "ts", "Timestamp")
    /\ op.timestamp.secs = Field(doc, "ts", "Timestamp").time
    /\ op.timestamp.frac = Field(doc, "ts", "Timestamp").increment
    /\ op.variant # "Noop" =>
        /\ Has(doc, "ns", "String") /\ op.namespace = Field(doc, "ns", "String")
        /\ Has(doc, "o", "Document")
        /\ op.variant = VariantOf(Tag(doc), Field(doc, "o", "Document"))
    /\ op.variant = "Noop" => Tag(doc) = "n"
    /\ op.variant = "Insert" => op.document = Field(doc, "o", "Document")
    /\ op.variant = "Update" =>
        /\ Has(doc, "o2", "Document")
        /\ op.query = Field(doc, "o2", "Document")
        /\ op.update = Field(doc, "o", "Document")
    /\ op.variant = "Delete" => op.query = Field(doc, "o", "Document")
    /\ op.variant = "Command" => op.command = Field(doc, "o", "Document")

\* C7: on a successful decode the namespace is "ns" verbatim and the
\* payloads are passed through unmodified in the right role: Insert.document
\* = o, Update.query = o2 and Update.update = o, Delete.query = o,
\* Command.command = o
C7_PayloadsPassedThrough ==
    (Done /\ result.kind = "Ok") => OwnFields(result.val, document)

C7_Witness ==
    /\ Done /\ result.kind = "Ok"
    /\ result.val.variant = "Update"
    /\ result.val.namespace = "foo.bar"
    /\ result.val.query = IdOne
    /\ result.val.update = ("$set" :> Doc("foo" :> Str("baz")))

Batch(doc) == Field(Field(doc, "o", "Document"), "applyOps", "Array")

\* C5: the operations of an ApplyOps are, index by index and in source
\* order, what Operation::new yields for each element of o.applyOps alone,
\* each with its own variant, namespace, payload and log position
C5_BatchElementwise ==
    (Done /\ result.kind = "Ok" /\ result.val.variant = "ApplyOps") =>
        /\ Has(document, "o", "Document")
        /\ Has(Field(document, "o", "Document"), "applyOps", "Array")
        /\ Len(result.val.operations) = Len(Batch(document))
        /\ \A i \in 1..Len(Batch(document)) :
            /\ Is(Batch(document)[i], "Document")
            /\ new(Batch(document)[i].Document) = Ok(result.val.operations[i])
            /\ OwnFields(result.val.operations[i], Batch(document)[i].Document)

C5_Witness ==
    /\ Done /\ result.kind = "Ok" /\ result.val.variant = "ApplyOps"
    /\ result.val.namespace = "foo.$cmd"
    /\ Len(result.val.operations) = 2
    /\ result.val.operations[1].variant = "Insert"
    /\ result.val.operations[1].namespace = "foo.bar"
    /\ result.val.operations[1].timestamp.secs = T1
    /\ result.val.operations[2].variant = "Delete"
    /\ result.val.operations[2].namespace = "baz.qux"

CommandRecord(doc) ==
    /\ Has(doc, "op", "String") /\ Tag(doc) = "c"
    /\ Has(doc, "ts", "Timestamp") /\ Has(doc, "ns", "String")
    /\ Has(doc, "o", "Document")

EmptyBatch(doc) == Has(Field(doc, "o", "Document"), "applyOps", "Array") /\ Batch(doc) = << >>

NoBatch(doc) == ~Has(Field(doc, "o", "Document"), "applyOps", "Array")

SextetOf(char) == CHOOSE n \in 0..63 : Alphabet[n + 1] = char

IsBase64(s) ==
    /\ Len(s) % 4 = 0
    /\ \A i \in 1..Len(s) :
        \/ \E n \in 0..63 : Alphabet[n + 1] = SubSeq(s, i, i)
        \/ SubSeq(s, i, i) = "=" /\ i > Len(s) - 2 /\ (i = Len(s) \/ SubSeq(s, Len(s), Len(s)) = "=")

RECURSIVE Base64Bytes(_)
Base64Bytes(s) ==
    IF Len(s) = 0 THEN << >>
    ELSE LET a == SextetOf(SubSeq(s, 1, 1))
             b == SextetOf(SubSeq(s, 2, 2))
             c == SextetOf(SubSeq(s, 3, 3))
             d == SextetOf(SubSeq(s, 4, 4))
         IN  IF SubSeq(s, 3, 3) = "=" THEN <<a * 4 + b \div 16>>
             ELSE IF SubSeq(s, 4, 4) = "=" THEN
                <<a * 4 + b \div 16, (b % 16) * 16 + c \div 4>>
             ELSE <<a * 4 + b \div 16, (b % 16) * 16 + c \div 4, (c % 4) * 64 + d>>
                    \o Base64Bytes(SubSeq(s, 5, Len(s)))

HasUidBytes(doc) ==
    /\ Has(doc, "lsid", "Document")
    /\ Has(Field(doc, "lsid", "Document"), "uid", "Binary")

UidBytesOf(doc) == Field(Field(doc, "lsid", "Document"), "uid", "Binary").bytes

\* op and every operation nested in it satisfy P(operation, its record)
RECURSIVE Everywhere(_, _, _)
Everywhere(P(_, _), op, doc) ==
    /\ P(op, doc)
    /\ op.variant = "ApplyOps" =>
        \A i \in 1..Len(op.operations) :
            Everywhere(P, op.operations[i], Batch(doc)[i].Document)

UidNonEmpty(op, doc) == op.uid # ""

UidIsEncodedBytes(op, doc) ==
    /\ HasUidBytes(doc)
    /\ IsBase64(op.uid)
    /\ Len(op.uid) = 4 * ((Len(UidBytesOf(doc)) + 2) \div 3)
    /\ Base64Bytes(op.uid) = UidBytesOf(doc)
    /\ op.uid = "" <=> UidBytesOf(doc) = << >>

\* C9, as the spec has it: every Operation returned, nested ones included,
\* has a non-empty uid
C9_UidNonEmpty ==
    (Done /\ result.kind = "Ok") => Everywhere(UidNonEmpty, result.val, document)

\* C9, amended: the uid of every Operation returned, nested ones included,
\* is the padded base64 text of the bytes of that record's own lsid.uid,
\* and so is empty exactly when lsid.uid holds zero bytes
C9_UidIsEncodedBytes ==
    (Done /\ result.kind = "Ok") => Everywhere(UidIsEncodedBytes, result.val, document)

C9_Witness ==
    /\ Done /\ result.kind = "Ok" /\ result.val.variant = "ApplyOps"
    /\ result.val.uid = "////"
    /\ Len(result.val.operations) = 2
    /\ UidBytesOf(Batch(document)[1].Document) = << >>
    /\ result.val.operations[1].uid = ""
    /\ UidBytesOf(Batch(document)[2].Document) = <<255>>
    /\ result.val.operations[2].uid = "/w=="

Failing(doc) == {i \in 1..Len(Batch(doc)) : from_bson(Batch(doc)[i]).kind # "Ok"}

FirstFailing(doc) == CHOOSE i \in Failing(doc) : \A j \in Failing(doc) : i <= j

\* C6: when an element of o.applyOps fails to decode, Operation::new on the
\* outer record returns an error, that of the lowest-index failing element:
\* InvalidOperation when it is no document, else what Operation::new
\* returns for it
C6_FirstElementError ==
    (/\ Done /\ CommandRecord(document) /\ ~NoBatch(document)
     /\ Failing(document) # {}) =>
        /\ result.kind = "Err"
        /\ LET e == Batch(document)[FirstFailing(document)]
           IN  IF Is(e, "Document") THEN result = new(e.Document)
               ELSE result = Err(InvalidOperation)

MessageOf(doc) ==
    IF Has(doc, "o", "Document") /\ Has(Field(doc, "o", "Document"), "msg", "String")
    THEN [kind |-> "Some", val |-> Field(Field(doc, "o", "Document"), "msg", "String")]
    ELSE None

\* C8: every document with op "n" and a ts log position decodes to Noop,
\* whether or not ns, o or lsid are present; its timestamp is ts.time
\* seconds past the epoch and its message is o.msg when that is a string
C8_NoopDecodes ==
    (Done /\ Has(document, "op", "String") /\ Tag(document) = "n"
          /\ Has(document, "ts", "Timestamp")) =>
        /\ result.kind = "Ok"
        /\ result.val.variant = "Noop"
        /\ result.val.timestamp.secs = Field(document, "ts", "Timestamp").time
        /\ result.val.message = MessageOf(document)

\* C10: two log positions with the same seconds and ordinals a < b, over the
\* whole u32 range, are both reconstructed, to timestamps in that order and
\* with ts.time as their seconds
C10_OrdinalOrder ==
    pc = "converted" =>
        /\ dtA.kind = "Ok" /\ dtB.kind = "Ok"
        /\ dtA.val.secs = tsA.time /\ dtB.val.secs = tsB.time
        /\ (tsA.time = tsB.time /\ U32Lt(tsA.increment, tsB.increment))
                => DateTimeLe(dtA.val, dtB.val)

====
